---------------------------- MODULE Spec2Model ----------------------------
(***************************************************************************)
(* AgriGPT routing and synthesis pipeline.                                 *)
(*                                                                         *)
(*   route_query            backend/agents/master_agent.py                 *)
(*   llm_route_with_scores  backend/agents/master_agent.py                 *)
(*   FormatterAgent         backend/agents/formatter_agent.py              *)
(*   PestAgent              backend/agents/pest_agent.py                   *)
(*   SubsidyAgent           backend/agents/subsidy_agent.py                *)
(*   ClarificationAgent     backend/agents/clarification_agent.py          *)
(*   query_groq_image       backend/services/vision_service.py             *)
(*   add_message_to_history backend/core/memory_manager.py                 *)
(*                                                                         *)
(* Text is a sequence of tokens: SP and NL are one whitespace character    *)
(* each, any other token is a piece of text that neither starts nor ends   *)
(* with whitespace.  A score is a record [none, v]: Num(n) is the JSON     *)
(* number n, None is JSON null.                                            *)
(***************************************************************************)
EXTENDS Integers, Sequences, FiniteSets, TLC

VARIABLES
    pc,             \* position of the request in route_query / the formatter
    path,           \* "image" | "text" | "direct" (formatter called on its own)
    query,          \* route_query's query argument: [given, pad, body]
    image_path,     \* route_query's image_path argument
    scoring,        \* how the scoring exchange went: "none" | "replied" | "call_error"
    raw,            \* llm.invoke(prompt).content of the scoring call
    routed,         \* the routing plan route_query iterates over
    idx,            \* position of the fan-out loop in routed
    agent_results,  \* results collected by route_query
    payload,        \* the argument of FormatterAgent.handle_query
    user_query,     \* the user_query handed to _format_text
    ordered_blocks, \* the blocks handed to _format_text
    meta,           \* the meta handed to _format_text
    synthesis,      \* how the synthesis call went: "none" | "ok" | "error"
    recorded,       \* arguments of the formatter's respond_and_record call
    reply,          \* what route_query / handle_query returns
    calls,          \* external calls made so far, in order
    asked,          \* the query argument of each provider call, in order
    called,         \* the agent or service called on its own
    arg,            \* its query argument as text: [given, s]
    inference,      \* what its collaborator call gave: [raised, val]
    image,          \* the file behind image_path, as query_groq_image finds it
    attempt,        \* the attempt variable of query_groq_image's retry loop
    sleeps,         \* the time.sleep calls of query_groq_image, in order
    chat_memory,    \* _CHAT_MEMORY: session id -> deque (0 when absent)
    deques,         \* the deque objects created so far, by identity
    threads         \* the add_message_to_history calls in flight, one per thread

vars == << pc, path, query, image_path, scoring, raw, routed, idx,
           agent_results, payload, user_query, ordered_blocks, meta, synthesis,
           recorded, reply, calls, asked, called, arg, inference, image,
           attempt,
           sleeps, chat_memory, deques, threads >>

\* the state of an agent or service called on its own
solo == << called, arg, inference, image, attempt, sleeps >>
\* the state of the session store
memory == << chat_memory, deques, threads >>
\* the state route_query and the formatter work on
pipeline == << asked, path, query, scoring, raw, routed, idx, agent_results, payload,
               user_query, ordered_blocks, meta, synthesis >>

----------------------------------------------------------------------------
(* Program constants                                                       *)

MAX_QUERY_CHARS == 2000
MAX_ROUTED_AGENTS == 3
PRIMARY_SCORE_THRESHOLD == 75
SECONDARY_SCORE_THRESHOLD == 50

Registry ==
    { "CropAgent", "PestAgent", "IrrigationAgent", "SubsidyAgent",
      "YieldAgent", "FormatterAgent", "ClarificationAgent" }

NON_ROUTABLE_AGENTS == { "FormatterAgent" }

----------------------------------------------------------------------------
(* Bounds of the model                                                     *)

\* longest scoring reply over the full item alphabet
MaxReplyLen == 3
\* most agent results in a payload handed straight to the formatter
MaxResults == 3

----------------------------------------------------------------------------
(* Text                                                                    *)

SP == " "
NL == "\n"
Whitespace == { SP, NL }
NoText == << >>

RECURSIVE lstrip(_)
lstrip(s) ==
    IF s = << >> THEN << >>
    ELSE IF Head(s) \in Whitespace THEN lstrip(Tail(s)) ELSE s

RECURSIVE rstrip(_)
rstrip(s) ==
    IF s = << >> THEN << >>
    ELSE IF s[Len(s)] \in Whitespace THEN rstrip(SubSeq(s, 1, Len(s) - 1)) ELSE s

\* str.strip()
strip(s) == rstrip(lstrip(s))

\* sep.join(parts)
RECURSIVE join(_, _)
join(sep, parts) ==
    IF parts = << >> THEN << >>
    ELSE IF Len(parts) = 1 THEN parts[1]
    ELSE parts[1] \o sep \o join(sep, Tail(parts))

\* str.upper() / str.lower() on the words the model uses
upper(w) ==
    CASE w \in {"primary", "Primary", "PRIMARY"} -> "PRIMARY"
      [] w \in {"pass", "Pass", "PASS"} -> "PASS"
      [] w \in {"it", "IT"} -> "IT"
      [] w \in {"supporting", "SUPPORTING"} -> "SUPPORTING"
      [] w \in {"impact", "IMPACT"} -> "IMPACT"
      [] w \in {"observer", "OBSERVER"} -> "OBSERVER"
      [] OTHER -> w

lower(w) ==
    CASE w \in {"primary", "Primary", "PRIMARY"} -> "primary"
      [] w \in {"hi", "Hi", "HI"} -> "hi"
      [] w \in {"hello", "Hello", "HELLO"} -> "hello"
      [] w \in {"good", "Good"} -> "good"
      [] w \in {"morning", "Morning"} -> "morning"
      [] w \in {"thank", "THANK"} -> "thank"
      [] w \in {"you", "YOU"} -> "you"
      [] w \in {"bye", "Bye"} -> "bye"
      [] w \in {"a", "A"} -> "a"
      [] w \in {"supporting", "SUPPORTING"} -> "supporting"
      [] w \in {"impact", "IMPACT"} -> "impact"
      [] w \in {"observer", "OBSERVER"} -> "observer"
      [] OTHER -> w

SeqsUpTo(S, n) == UNION { [1..k -> S] : k \in 0..n }


----------------------------------------------------------------------------
(* The scoring reply and the router: llm_route_with_scores                 *)

Num(n) == [none |-> FALSE, v |-> n]
None == [none |-> TRUE, v |-> 0]

\* tokens of the raw reply: "[" and "]", prose, a JSON object with an agent
\* and (maybe) a score, a JSON scalar
Tok(k) == [t |-> k, agent |-> "", has_score |-> FALSE, score |-> Num(0)]
Obj(a, s) == [t |-> "obj", agent |-> a, has_score |-> TRUE, score |-> s]
ObjNoScore(a) == [t |-> "obj", agent |-> a, has_score |-> FALSE, score |-> Num(0)]
LB == Tok("[")
RB == Tok("]")
Prose == Tok("txt")
Scalar == Tok("num")

Ok(x) == [raised |-> FALSE, val |-> x]
Raise == [raised |-> TRUE, val |-> << >>]

Positions(s, tok) == { i \in 1..Len(s) : s[i] = tok }
Min(S) == CHOOSE x \in S : \A y \in S : x <= y
Max(S) == CHOOSE x \in S : \A y \in S : x >= y

\* re.search(r"\[.*\]", raw, re.DOTALL): from the first "[" to the last "]"
HasMatch(r) ==
    /\ Positions(r, LB) # {}
    /\ \E j \in Positions(r, RB) : j > Min(Positions(r, LB))

re_search(r) == SubSeq(r, Min(Positions(r, LB)), Max(Positions(r, RB)))

\* json.loads(match.group()): the elements between the outer brackets, or
\* a decode error when anything but JSON values stands between them
json_loads(m) ==
    LET inner == SubSeq(m, 2, Len(m) - 1)
    IN  IF \A i \in 1..Len(inner) : inner[i].t \in {"obj", "num"}
        THEN Ok(inner)
        ELSE Raise

\* item.get("score", 0)
get_score(item) == IF item.has_score THEN item.score ELSE Num(0)

\* normalize without the seen set (C2 rests on the deduplication)
RECURSIVE normalize_no_dedup(_, _)
normalize_no_dedup(parsed, seen) ==
    IF parsed = << >> THEN << >>
    ELSE LET item == Head(parsed)
         IN  IF item.agent \in Registry /\ item.agent \notin NON_ROUTABLE_AGENTS
             THEN << [agent |-> item.agent, score |-> get_score(item)] >>
                    \o normalize_no_dedup(Tail(parsed), seen)
             ELSE normalize_no_dedup(Tail(parsed), seen)

\* lines 191-204: keep registered, routable, first-seen agents
RECURSIVE normalize(_, _)
normalize(parsed, seen) ==
    IF parsed = << >> THEN << >>
    ELSE LET item == Head(parsed)
         IN  IF /\ item.agent \in Registry
                /\ item.agent \notin NON_ROUTABLE_AGENTS
                /\ item.agent \notin seen
             THEN << [agent |-> item.agent, score |-> get_score(item)] >>
                    \o normalize(Tail(parsed), seen \cup {item.agent})
             ELSE normalize(Tail(parsed), seen)

\* item.get raises AttributeError on an element that is no object
normalize_raises(parsed) == \E i \in 1..Len(parsed) : parsed[i].t # "obj"

\* list.sort placing a candidate before its equals (C20 rests on stability)
RECURSIVE insert_desc_unstable(_, _)
insert_desc_unstable(sorted, c) ==
    IF sorted = << >> THEN << c >>
    ELSE IF Head(sorted).score.v > c.score.v
         THEN << Head(sorted) >> \o insert_desc_unstable(Tail(sorted), c)
         ELSE << c >> \o sorted

\* list.sort(key=score, reverse=True): stable, descending.  insert_desc
\* puts c behind every element that does not compare below it.
RECURSIVE insert_desc(_, _)
insert_desc(sorted, c) ==
    IF sorted = << >> THEN << c >>
    ELSE IF Head(sorted).score.v >= c.score.v
         THEN << Head(sorted) >> \o insert_desc(Tail(sorted), c)
         ELSE << c >> \o sorted

RECURSIVE sort_desc(_)
sort_desc(cands) ==
    IF cands = << >> THEN << >>
    ELSE insert_desc(sort_desc(SubSeq(cands, 1, Len(cands) - 1)),
                     cands[Len(cands)])

\* comparing None with a number (or with None) is a TypeError; a list of
\* fewer than two elements is sorted without any comparison
sort_raises(cands) ==
    /\ Len(cands) >= 2
    /\ \E i \in 1..Len(cands) : cands[i].score.none

Route(c, role) == [agent |-> c.agent, role |-> role, score |-> c.score]
CropFallback == << [agent |-> "CropAgent", role |-> "primary", score |-> Num(0)] >>

\* primary selection whose last threshold is strict (C4 rests on >= 50)
primary_selection_above_50(candidates) ==
    LET best_candidate == candidates[1]
    IN  IF best_candidate.score.none
        THEN [raised |-> TRUE, abandon |-> FALSE, routes |-> << >>]
        ELSE IF best_candidate.score.v >= PRIMARY_SCORE_THRESHOLD
                  \/ best_candidate.agent = "CropAgent"
                  \/ best_candidate.score.v > 50
        THEN [raised |-> FALSE, abandon |-> FALSE,
              routes |-> << Route(best_candidate, "primary") >>]
        ELSE [raised |-> FALSE, abandon |-> TRUE, routes |-> CropFallback]

\* lines 215-244: [raised, abandon, routes]
primary_selection(candidates) ==
    LET best_candidate == candidates[1]
    IN  IF best_candidate.score.none
        THEN [raised |-> TRUE, abandon |-> FALSE, routes |-> << >>]
        ELSE IF best_candidate.score.v >= PRIMARY_SCORE_THRESHOLD
        THEN [raised |-> FALSE, abandon |-> FALSE,
              routes |-> << Route(best_candidate, "primary") >>]
        ELSE IF best_candidate.agent = "CropAgent"
        THEN [raised |-> FALSE, abandon |-> FALSE,
              routes |-> << [agent |-> "CropAgent", role |-> "primary",
                             score |-> best_candidate.score] >>]
        ELSE IF best_candidate.score.v >= 50
        THEN [raised |-> FALSE, abandon |-> FALSE,
              routes |-> << Route(best_candidate, "primary") >>]
        ELSE [raised |-> FALSE, abandon |-> TRUE, routes |-> CropFallback]

\* a strict secondary threshold (C5 rests on >=)
is_secondary_strict(cand) == cand.score.v > SECONDARY_SCORE_THRESHOLD

\* the threshold check of line 254
is_secondary(cand) == cand.score.v >= SECONDARY_SCORE_THRESHOLD

\* the loop guard of line 250
plan_full(final_routes) == Len(final_routes) >= MAX_ROUTED_AGENTS

\* lines 249-262, over the candidates after the first
RECURSIVE secondary_selection(_, _)
secondary_selection(final_routes, rest) ==
    IF rest = << >> \/ plan_full(final_routes) THEN final_routes
    ELSE IF is_secondary(Head(rest))
         THEN secondary_selection(
                  Append(final_routes, Route(Head(rest), "supporting")),
                  Tail(rest))
         ELSE secondary_selection(final_routes, Tail(rest))

\* the candidates of lines 191-207, when nothing raised before them
candidates_of(r) == sort_desc(normalize(json_loads(re_search(r)).val, {}))

\* the body of the try block, lines 180-264
route_body(r) ==
    IF ~HasMatch(r) THEN Raise
    ELSE LET parsed == json_loads(re_search(r))
         IN  IF parsed.raised \/ normalize_raises(parsed.val) THEN Raise
             ELSE LET unsorted == normalize(parsed.val, {})
                  IN  IF sort_raises(unsorted) THEN Raise
                      ELSE LET candidates == sort_desc(unsorted)
                           IN  IF candidates = << >> THEN Ok(<< >>)
                               ELSE LET p == primary_selection(candidates)
                                    IN  IF p.raised THEN Raise
                                        ELSE IF p.abandon THEN Ok(p.routes)
                                        ELSE Ok(secondary_selection(
                                                 p.routes, Tail(candidates)))

\* lines 179-268: every exception of the try block becomes []
llm_route_with_scores(r) ==
    LET res == route_body(r)
    IN  IF res.raised THEN << >> ELSE res.val


----------------------------------------------------------------------------
(* Inputs                                                                  *)

\* agents a scoring reply may name: four routable ones, the formatter, and
\* one the registry does not know
RoutableSample == { "CropAgent", "PestAgent", "IrrigationAgent", "YieldAgent" }
ReplyAgents == RoutableSample \cup { "FormatterAgent", "GhostAgent" }

\* one score below the secondary threshold, the two thresholds themselves
ScoreLevels ==
    { SECONDARY_SCORE_THRESHOLD - 1, SECONDARY_SCORE_THRESHOLD,
      PRIMARY_SCORE_THRESHOLD }

WellFormedItems == { Obj(a, Num(n)) : a \in RoutableSample, n \in ScoreLevels }

ReplyItems ==
    WellFormedItems
      \cup { Obj("FormatterAgent", Num(PRIMARY_SCORE_THRESHOLD)),
             Obj("GhostAgent", Num(PRIMARY_SCORE_THRESHOLD)),
             Obj("PestAgent", None), Obj("CropAgent", None),
             ObjNoScore("IrrigationAgent"), Scalar }

\* the arrays a reply may hold: every array of up to MaxReplyLen items, and
\* every well-formed array that names one provider more than a plan may hold
ReplyArrays ==
    SeqsUpTo(ReplyItems, MaxReplyLen)
      \cup [1..(MAX_ROUTED_AGENTS + 1) -> WellFormedItems]

\* a bare array; an array inside prose; two arrays; text without an array
Replies ==
    { << LB >> \o a \o << RB >> : a \in ReplyArrays }
      \cup { << Prose, LB >> \o a \o << RB, Prose >> : a \in SeqsUpTo(ReplyItems, 1) }
      \cup { << LB, RB, Prose, LB >> \o a \o << RB >> : a \in SeqsUpTo(ReplyItems, 1) }
      \cup { << LB, Prose >> \o a \o << RB >> : a \in SeqsUpTo(ReplyItems, 1) }
      \cup { << >>, << Prose >>, << LB, Prose >>, << RB, Prose, LB >> }

NoQuery == [given |-> FALSE, pad |-> 0, body |-> 0]
Queries ==
    { NoQuery }
      \cup { [given |-> TRUE, pad |-> p, body |-> b] :
               p \in {0, 1},
               b \in {0, MAX_QUERY_CHARS, MAX_QUERY_CHARS + 1} }

NoPath == "<None>"
ImagePaths == { NoPath, "", "leaf.png" }

\* what a text provider may hand back
ProviderOutputs == { << >>, << SP >>, << SP, "advice", NL >> }

\* what the synthesis call may hand back
SynthReplies == { << >>, << NL, "Title", SP, "bullets", NL >> }

----------------------------------------------------------------------------
(* FormatterAgent                                                          *)

Absent == "<absent>"

\* payload.get / item.get with their defaults
get_role(item) == IF item.role = Absent THEN "supporting" ELSE item.role
get_agent(item) == IF item.agent = Absent THEN "UnknownAgent" ELSE item.agent
get_routing_mode(p) == IF p.routing_mode = Absent THEN "unknown" ELSE p.routing_mode

\* role_priority.get(role, 99), lines 59-69
role_priority(role) ==
    CASE role = "primary" -> 0
      [] role = "supporting" -> 1
      [] role = "impact" -> 2
      [] OTHER -> 99

sort_key(item) == role_priority(lower(get_role(item)))

\* an insertion that puts x before its equals (C7 rests on stability)
RECURSIVE insert_by_role_unstable(_, _)
insert_by_role_unstable(sorted, x) ==
    IF sorted = << >> THEN << x >>
    ELSE IF sort_key(Head(sorted)) < sort_key(x)
         THEN << Head(sorted) >> \o insert_by_role_unstable(Tail(sorted), x)
         ELSE << x >> \o sorted

\* sorted(agent_results, key=...): stable, ascending.  insert_by_role puts x
\* behind every element whose key is not greater than its own.
RECURSIVE insert_by_role(_, _)
insert_by_role(sorted, x) ==
    IF sorted = << >> THEN << x >>
    ELSE IF sort_key(Head(sorted)) <= sort_key(x)
         THEN << Head(sorted) >> \o insert_by_role(Tail(sorted), x)
         ELSE << x >> \o sorted

RECURSIVE sorted_by_role(_)
sorted_by_role(results) ==
    IF results = << >> THEN << >>
    ELSE insert_by_role(sorted_by_role(SubSeq(results, 1, Len(results) - 1)),
                        results[Len(results)])

\* the emptiness test without the trim (C8 rests on the strip of line 81)
has_content_untrimmed(item) == item.content # << >>

\* line 81 and the test of line 83
item_content(item) == strip(item.content)
has_content(item) == item_content(item) # << >>

\* f"[{role.upper()} | {agent}]\n{content}", lines 84-86
block_of(item) ==
    << "[", upper(lower(get_role(item))), SP, "|", SP, get_agent(item), "]", NL >>
      \o item_content(item)

\* lines 78-90
RECURSIVE build_blocks(_)
build_blocks(sorted) ==
    IF sorted = << >> THEN << >>
    ELSE IF has_content(Head(sorted))
         THEN << block_of(Head(sorted)) >> \o build_blocks(Tail(sorted))
         ELSE build_blocks(Tail(sorted))

RECURSIVE build_role_log(_)
build_role_log(sorted) ==
    IF sorted = << >> THEN << >>
    ELSE IF has_content(Head(sorted))
         THEN << [agent |-> get_agent(Head(sorted)),
                  role |-> lower(get_role(Head(sorted)))] >>
                \o build_role_log(Tail(sorted))
         ELSE build_role_log(Tail(sorted))

NoMeta == [present |-> FALSE, routing_mode |-> "", agents |-> << >>, agent_count |-> 0]

\* lines 100-104
build_meta(routing_mode, role_log) ==
    [present |-> TRUE, routing_mode |-> routing_mode, agents |-> role_log,
     agent_count |-> Len(role_log)]

NoContentAvailable == << "No content available to format." >>
NoAgentResponses == << "No agent responses were generated." >>
ResponsesEmpty == << "Agent responses were empty." >>
OtherPayloadText == << "str(payload)" >>

Answered(uq, response) ==
    [done |-> TRUE, user_query |-> uq, response |-> response,
     blocks |-> << >>, meta |-> NoMeta]
ToFormat(uq, blocks, m) ==
    [done |-> FALSE, user_query |-> uq, response |-> << >>,
     blocks |-> blocks, meta |-> m]

\* FormatterAgent.handle_query up to its respond_and_record or _format_text
handle_query(p) ==
    IF p.kind = "str"
    THEN IF strip(p.text) = << >>
         THEN Answered(<< >>, NoContentAvailable)
         ELSE ToFormat(<< >>, << strip(p.text) >>, NoMeta)
    ELSE IF p.kind # "dict"
    THEN Answered(<< >>, OtherPayloadText)
    ELSE IF p.agent_results = << >>
    THEN Answered(strip(p.user_query), NoAgentResponses)
    ELSE LET agent_results_sorted == sorted_by_role(p.agent_results)
             blocks == build_blocks(agent_results_sorted)
         IN  IF blocks = << >>
             THEN Answered(strip(p.user_query), ResponsesEmpty)
             ELSE ToFormat(strip(p.user_query), blocks,
                           build_meta(get_routing_mode(p),
                                      build_role_log(agent_results_sorted)))

\* line 127
combined_content(blocks) == join(<< NL, NL >>, blocks)

\* a fallback that loses the blocks (C10 rests on line 214)
format_result_no_fallback(blocks, synth) ==
    strip(IF synth.raised THEN << >> ELSE synth.val)

\* lines 211-216: the synthesis reply, or the blocks when the call raised
format_result(blocks, synth) ==
    strip(IF synth.raised THEN combined_content(blocks) ELSE synth.val)

\* AgriAgentBase.respond_and_record: what it hands back to its caller
respond_and_record(q, response) == response


----------------------------------------------------------------------------
(* PestAgent on an image, and the vision service it calls                  *)

\* every value query_groq_image returns: its fixed messages, or the model's
\* normalized output when that has at least 5 characters
QueryGroqImageReturns ==
    { << "The image file was not found." >>,
      << "The image could not be analyzed clearly. Please upload a clearer image." >>,
      << "The image could not be analyzed at this time. Please try again later." >>,
      << "brown", SP, "spots", SP, "on", SP, "the", SP, "leaves" >> }

VisionOutcomes == { Raise } \cup { Ok(t) : t \in QueryGroqImageReturns }

\* PestAgent.handle_query with an image, lines 30-49
pest_image_query(vision) ==
    respond_and_record(<< "Image-based symptom observation" >>,
                       IF vision.raised
                       THEN << "The image could not be analyzed clearly." >>
                       ELSE vision.val)

----------------------------------------------------------------------------
(* route_query                                                             *)

truthy(q) == q.given /\ q.pad + q.body > 0
query_len(q) == q.pad + q.body
\* query.strip() when the query is non-empty, lines 43-44
stripped(q) == IF truthy(q) THEN [q EXCEPT !.pad = 0] ELSE q
query_text(q) == IF truthy(q) THEN << "<query>" >> ELSE << >>

\* the order of the tests of lines 46, 52 and 75 (C1's mutant tests the
\* query before the image)
entry_branch_text_first(q, img) ==
    IF truthy(q) /\ query_len(q) > MAX_QUERY_CHARS THEN "too_long"
    ELSE IF truthy(q) THEN "route"
    ELSE IF img \notin { NoPath, "" } THEN "image"
    ELSE "no_query"

\* lines 46-76: which way route_query goes
entry_branch(q, img) ==
    IF truthy(q) /\ query_len(q) > MAX_QUERY_CHARS THEN "too_long"
    ELSE IF img \notin { NoPath, "" } THEN "image"
    ELSE IF ~truthy(q) THEN "no_query"
    ELSE "route"

TooLong == << "Your question is too long. Please shorten it." >>
PleaseAsk == << "Please ask an agriculture-related question." >>

NoPayload ==
    [kind |-> "none", user_query |-> << >>, routing_mode |-> "",
     agent_results |-> << >>, text |-> << >>]
DictPayload(uq, mode, results) ==
    [kind |-> "dict", user_query |-> uq, routing_mode |-> mode,
     agent_results |-> results, text |-> << >>]
StrPayload(text) ==
    [kind |-> "str", user_query |-> << >>, routing_mode |-> "",
     agent_results |-> << >>, text |-> text]

Result(agent, role, score, content) ==
    [agent |-> agent, role |-> role, score |-> score, content |-> content]

score_text(score) == IF score.none THEN "None" ELSE ToString(score.v)

RECURSIVE dump_results(_)
dump_results(results) ==
    IF results = << >> THEN << >>
    ELSE << "{", Head(results).agent, Head(results).role,
            score_text(Head(results).score) >>
           \o Head(results).content \o << "}" >>
           \o dump_results(Tail(results))

\* json.dumps(payload, ensure_ascii=False), line 72
json_dumps(uq, mode, results) ==
    << "{", "user_query:" >> \o uq \o << "routing_mode:", mode, "agent_results:", "[" >>
      \o dump_results(results) \o << "]", "}" >>

\* route_query without its hard fallback (C3 rests on line 85)
hard_fallback_keep_empty(r) ==
    IF r = << >> \/ \E i \in 1..Len(r) : r[i].role = "primary"
    THEN r
    ELSE [r EXCEPT ![1].role = "primary"]

\* lines 84-90
hard_fallback(r) ==
    LET r1 == IF r = << >> THEN CropFallback ELSE r
    IN  IF \E i \in 1..Len(r1) : r1[i].role = "primary"
        THEN r1
        ELSE [r1 EXCEPT ![1].role = "primary"]

\* the loop running over the whole plan (C22 rests on routed[:MAX_ROUTED_AGENTS])
FanOut_uncapped == Len(routed)

\* routed[:MAX_ROUTED_AGENTS]
FanOut == IF Len(routed) < MAX_ROUTED_AGENTS THEN Len(routed) ELSE MAX_ROUTED_AGENTS

\* multi_agent as soon as there is one result (C9 rests on > 1)
routing_mode_of_any(results) == IF Len(results) > 0 THEN "multi_agent" ELSE "single_agent"

\* line 114
routing_mode_of(results) == IF Len(results) > 1 THEN "multi_agent" ELSE "single_agent"

RECURSIVE score_summary(_)
score_summary(results) ==
    IF results = << >> THEN << >>
    ELSE << Head(results).agent, ":", SP, score_text(Head(results).score) >>
           \o (IF Len(results) > 1 THEN << ",", SP >> ELSE << >>)
           \o score_summary(Tail(results))

\* lines 122-129
with_confidence(response, results) ==
    IF score_summary(results) = << >> THEN response
    ELSE response \o << NL, NL, "**Router Confidence:**", SP >> \o score_summary(results)

Recorded(q, response, m) == [query |-> q, response |-> response, meta |-> m]

----------------------------------------------------------------------------
(* Actions                                                                 *)

\* route_query, lines 41-76: trim, length guard, image precedence, empty query
RouteQuery ==
    /\ pc = "start"
    /\ UNCHANGED << solo, memory, asked >>
    /\ LET q == stripped(query)
           branch == entry_branch(q, image_path)
       IN  /\ query' = q
           /\ pc' = IF branch \in { "too_long", "no_query" } THEN "done" ELSE branch
           /\ path' = IF branch \in { "too_long", "no_query" } THEN "rejected"
                      ELSE IF branch = "image" THEN "image" ELSE "text"
           /\ reply' = IF branch = "too_long" THEN TooLong
                       ELSE IF branch = "no_query" THEN PleaseAsk
                       ELSE reply
    /\ UNCHANGED << image_path, scoring, raw, routed, idx, agent_results, payload,
                    user_query, ordered_blocks, meta, synthesis, recorded, calls >>

\* route_query, lines 52-72: PestAgent alone, then the payload as a JSON string
ImagePath ==
    /\ pc = "image"
    /\ UNCHANGED << solo, memory >>
    /\ \E vision \in VisionOutcomes :
          LET results == << Result("PestAgent", "primary", Num(100),
                                   pest_image_query(vision)) >>
              uq == IF truthy(query) THEN query_text(query)
                    ELSE << "Image-based crop issue" >>
          IN  /\ agent_results' = results
              /\ payload' = StrPayload(json_dumps(uq, "single_agent", results))
    /\ calls' = Append(calls, "PestAgent")
    /\ asked' = Append(asked, query_text(query))
    /\ pc' = "format"
    /\ UNCHANGED << path, query, image_path, scoring, raw, routed, idx, user_query,
                    ordered_blocks, meta, synthesis, recorded, reply >>

\* route_query line 81: llm_route_with_scores.  get_llm() stands before the
\* try block, so its failure leaves route_query as an exception.
ScoreAndRoute ==
    /\ pc = "route"
    /\ UNCHANGED << solo, memory, asked >>
    /\ \E client \in { "ok", "error" } :
          IF client = "error"
          THEN /\ pc' = "raised"
               /\ UNCHANGED << scoring, raw, routed, calls >>
          ELSE /\ pc' = "routed"
               /\ calls' = Append(calls, "llm.scoring")
               /\ \E outcome \in { Raise } \cup { Ok(r) : r \in Replies } :
                     IF outcome.raised
                     THEN /\ scoring' = "call_error"
                          /\ raw' = << >>
                          /\ routed' = << >>
                     ELSE /\ scoring' = "replied"
                          /\ raw' = outcome.val
                          /\ routed' = llm_route_with_scores(outcome.val)
    /\ UNCHANGED << path, query, image_path, idx, agent_results, payload, user_query,
                    ordered_blocks, meta, synthesis, recorded, reply >>

\* route_query, lines 84-90
HardFallback ==
    /\ pc = "routed"
    /\ UNCHANGED << solo, memory, asked >>
    /\ routed' = hard_fallback(routed)
    /\ idx' = 1
    /\ pc' = "invoke"
    /\ UNCHANGED << path, query, image_path, scoring, raw, agent_results, payload,
                    user_query, ordered_blocks, meta, synthesis, recorded, reply,
                    calls >>

\* route_query, lines 94-110: one turn of the loop.  The scoring exchange
\* is over once the fan-out has begun.
InvokeNext ==
    /\ pc = "invoke"
    /\ UNCHANGED << solo, memory >>
    /\ idx <= FanOut
    /\ LET item == routed[idx]
       IN  IF item.agent \notin Registry
           THEN UNCHANGED << agent_results, calls, asked >>
           ELSE /\ calls' = Append(calls, item.agent)
                /\ asked' = Append(asked, query_text(query))
                /\ \E output \in ProviderOutputs :
                      agent_results' =
                          Append(agent_results,
                                 Result(item.agent, item.role, item.score, output))
    /\ idx' = idx + 1
    /\ scoring' = "none"
    /\ raw' = << >>
    /\ UNCHANGED << pc, path, query, image_path, routed, payload, user_query,
                    ordered_blocks, meta, synthesis, recorded, reply >>

\* route_query, lines 112-116
BuildPayload ==
    /\ pc = "invoke"
    /\ UNCHANGED << solo, memory, asked >>
    /\ idx > FanOut
    /\ payload' = DictPayload(query_text(query), routing_mode_of(agent_results),
                              agent_results)
    /\ pc' = "format"
    /\ UNCHANGED << path, query, image_path, scoring, raw, routed, idx, agent_results,
                    user_query, ordered_blocks, meta, synthesis, recorded, reply,
                    calls >>

\* FormatterAgent.handle_query, lines 22-114
FormatterHandleQuery ==
    /\ pc = "format"
    /\ UNCHANGED << solo, memory, asked >>
    /\ calls' = Append(calls, "FormatterAgent")
    /\ LET h == handle_query(payload)
       IN  /\ user_query' = h.user_query
           /\ ordered_blocks' = h.blocks
           /\ meta' = h.meta
           /\ IF h.done
              THEN /\ recorded' = Append(recorded,
                                         Recorded(h.user_query, h.response, h.meta))
                   /\ reply' = respond_and_record(h.user_query, h.response)
                   /\ pc' = "formatted"
              ELSE /\ pc' = "synth"
                   /\ UNCHANGED << recorded, reply >>
    /\ UNCHANGED << path, query, image_path, scoring, raw, routed, idx,
                    agent_results, payload, synthesis >>

\* FormatterAgent._format_text, lines 119-223
FormatText ==
    /\ pc = "synth"
    /\ UNCHANGED << solo, memory, asked >>
    /\ calls' = Append(calls, "llm.synthesis")
    /\ \E synth \in { Raise } \cup { Ok(t) : t \in SynthReplies } :
          LET formatted == format_result(ordered_blocks, synth)
          IN  /\ synthesis' = IF synth.raised THEN "error" ELSE "ok"
              /\ recorded' = Append(recorded, Recorded(user_query, formatted, meta))
              /\ reply' = respond_and_record(user_query, formatted)
    /\ pc' = "formatted"
    /\ UNCHANGED << path, query, image_path, scoring, raw, routed, idx,
                    agent_results, payload, user_query, ordered_blocks, meta >>

\* route_query returning through the formatter a second time (C19 rests on
\* the single call of line 116)
ReturnReply_reformat ==
    /\ pc = "formatted"
    /\ UNCHANGED << solo, memory, asked >>
    /\ path \in { "image", "text" }
    /\ pc' = IF Len(SelectSeq(calls, LAMBDA c : c = "FormatterAgent")) < 2
             THEN "format" ELSE "done"
    /\ UNCHANGED << path, query, image_path, scoring, raw, routed, idx,
                    agent_results, payload, user_query, ordered_blocks, meta,
                    synthesis, recorded, reply, calls >>

\* route_query, line 71 (image) and lines 119-131 (text)
ReturnReply ==
    /\ pc = "formatted"
    /\ UNCHANGED << solo, memory, asked >>
    /\ path \in { "image", "text" }
    /\ reply' = IF path = "text" THEN with_confidence(reply, agent_results) ELSE reply
    /\ pc' = "done"
    /\ UNCHANGED << path, query, image_path, scoring, raw, routed, idx,
                    agent_results, payload, user_query, ordered_blocks, meta,
                    synthesis, recorded, calls >>

----------------------------------------------------------------------------
(* Specifications                                                          *)

Fresh ==
    /\ scoring = "none"
    /\ raw = << >>
    /\ routed = << >>
    /\ idx = 0
    /\ agent_results = << >>
    /\ user_query = << >>
    /\ ordered_blocks = << >>
    /\ meta = NoMeta
    /\ synthesis = "none"
    /\ recorded = << >>
    /\ reply = << >>
    /\ calls = << >>
    /\ asked = << >>

\* no agent is called on its own
SoloIdle ==
    /\ called = ""
    /\ arg = [given |-> FALSE, s |-> << >>]
    /\ inference = Ok(<< >>)
    /\ image = ""
    /\ attempt = 0
    /\ sleeps = << >>

\* the session store is empty and unused
MemoryIdle ==
    /\ chat_memory = << >>
    /\ deques = << >>
    /\ threads = << >>

\* a call of route_query
Init ==
    /\ pc = "start"
    /\ path = "none"
    /\ query \in Queries
    /\ image_path \in ImagePaths
    /\ payload = NoPayload
    /\ Fresh
    /\ SoloIdle
    /\ MemoryIdle

Next ==
    \/ RouteQuery
    \/ ImagePath
    \/ ScoreAndRoute
    \/ HardFallback
    \/ InvokeNext
    \/ BuildPayload
    \/ FormatterHandleQuery
    \/ FormatText
    \/ ReturnReply

Spec == Init /\ [][Next]_vars

\* roles and payloads for a call of FormatterAgent.handle_query on its own
DirectRoles == { "primary", "supporting", "impact", "Primary", "observer", Absent }

\* the results of a payload: the agent of a result is its place in the list
DirectResults(rc) ==
    [i \in 1..Len(rc) |-> Result(ToString(i), rc[i][1], Num(0), rc[i][2])]

OtherPayload == [NoPayload EXCEPT !.kind = "other"]

\* a call of FormatterAgent.handle_query with a dict of up to MaxResults
\* results, with a string, or with something else
InitFormatter ==
    /\ pc = "format"
    /\ path = "direct"
    /\ query = NoQuery
    /\ image_path = NoPath
    /\ \/ \E n \in 0..MaxResults :
             \E rc \in [1..n -> DirectRoles \X ProviderOutputs] :
                \E mode \in { "multi_agent", Absent } :
                   payload = DictPayload(<< SP, "<query>" >>, mode, DirectResults(rc))
       \/ \E t \in ProviderOutputs : payload = StrPayload(t)
       \/ payload = OtherPayload
    /\ Fresh
    /\ SoloIdle
    /\ MemoryIdle

NextFormatter ==
    \/ FormatterHandleQuery
    \/ FormatText

SpecFormatter == InitFormatter /\ [][NextFormatter]_vars


----------------------------------------------------------------------------
(* Properties                                                              *)

IsProviderCall(c) == c \notin { "llm.scoring", "FormatterAgent", "llm.synthesis" }
ProviderCalls == SelectSeq(calls, IsProviderCall)
IsScoringCall(c) == c = "llm.scoring"
IsSynthesisCall(c) == c = "llm.synthesis"
HasImage == image_path \notin { NoPath, "" }
Returned == pc = "done"

PlanOf(results) ==
    [i \in 1..Len(results) |->
        [agent |-> results[i].agent, role |-> results[i].role,
         score |-> results[i].score]]

ImagePlan == << [agent |-> "PestAgent", role |-> "primary", score |-> Num(100)] >>

\* what C1 says of a finished call
ImageOnlyOutcome ==
    /\ payload.kind = "str"
    /\ PlanOf(agent_results) = ImagePlan
    /\ \E uq \in { << "<query>" >>, << "Image-based crop issue" >> } :
          payload.text = json_dumps(uq, "single_agent", agent_results)
    /\ ProviderCalls = << "PestAgent" >>
    /\ SelectSeq(calls, IsScoringCall) = << >>

\* C1 as stated: every route_query call with a non-empty image_path, whatever
\* its query text and however long, hands the formatter exactly the plan
\* {PestAgent, primary, 100}, invokes PestAgent alone and makes no scoring
\* call.
C1_AnyLength == (Returned /\ HasImage) => ImageOnlyOutcome

\* C1 (amended): every route_query call with a non-empty image_path whose
\* trimmed query is at most MAX_QUERY_CHARS characters long hands the
\* formatter exactly the plan {PestAgent, primary, 100}, invokes PestAgent
\* alone and makes no scoring call.
C1_ImagePrecedence ==
    (Returned /\ HasImage /\ query_len(query) <= MAX_QUERY_CHARS) => ImageOnlyOutcome

\* an image together with a query of the greatest admissible length
C1_Witness ==
    /\ Returned
    /\ HasImage
    /\ query_len(query) = MAX_QUERY_CHARS
    /\ ProviderCalls = << "PestAgent" >>

\* the routing stage of the text path is over
Planned == path = "text" /\ pc \notin { "route", "routed", "raised" }

\* C2: whatever the scoring reply, the plan route_query iterates over has 1
\* to 3 entries, exactly one of them primary, and no provider twice.
C2_PlanWellFormed ==
    Planned =>
        /\ Len(routed) \in 1..MAX_ROUTED_AGENTS
        /\ Cardinality({ i \in 1..Len(routed) : routed[i].role = "primary" }) = 1
        /\ \A i, j \in 1..Len(routed) : routed[i].agent = routed[j].agent => i = j

\* four distinct routable providers, all at or above the secondary
\* threshold, give a plan of three
C2_Witness ==
    /\ pc = "invoke"
    /\ scoring = "replied"
    /\ HasMatch(raw)
    /\ Len(candidates_of(raw)) = MAX_ROUTED_AGENTS + 1
    /\ \A i \in 1..Len(candidates_of(raw)) :
          candidates_of(raw)[i].score.v >= SECONDARY_SCORE_THRESHOLD
    /\ Len(routed) = MAX_ROUTED_AGENTS

\* some "[" ... "]" stretch of the reply holds JSON values only
HasParseableArray(r) ==
    \E i, j \in 1..Len(r) :
        /\ i < j
        /\ r[i] = LB
        /\ r[j] = RB
        /\ \A k \in (i + 1)..(j - 1) : r[k].t \in { "obj", "num" }

\* the stretch the router parses is "[]"
ParsesToEmptyArray(r) == HasMatch(r) /\ re_search(r) = << LB, RB >>

\* C3: a reply without a parseable bracketed array, or one that parses to
\* the empty array, yields no candidates; the plan is then exactly
\* [{CropAgent, primary, 0}] and CropAgent is the one provider invoked.
C3_UnparseableFallsBack ==
    /\ (scoring = "replied" /\ (~HasParseableArray(raw) \/ ParsesToEmptyArray(raw)))
          => /\ pc = "routed" => routed = << >>
             /\ pc = "invoke" => routed = CropFallback
    /\ (Planned /\ routed = CropFallback /\ pc # "invoke")
          => ProviderCalls = << "CropAgent" >>

\* prose without any array, and CropAgent about to be invoked alone
C3_Witness ==
    /\ pc = "invoke"
    /\ scoring = "replied"
    /\ raw = << Prose >>
    /\ routed = CropFallback

\* the reply reaches primary selection: it parses, normalizes and sorts to a
\* non-empty candidate list whose scores are numbers
ReachesSelection(r) ==
    /\ HasMatch(r)
    /\ ~json_loads(re_search(r)).raised
    /\ ~normalize_raises(json_loads(re_search(r)).val)
    /\ candidates_of(r) # << >>
    /\ \A i \in 1..Len(candidates_of(r)) : ~candidates_of(r)[i].score.none

PrimaryFrom(c) == [agent |-> c.agent, role |-> "primary", score |-> c.score]

PrimaryChosen(r) ==
    /\ ReachesSelection(r)
    /\ \/ candidates_of(r)[1].score.v >= 50
       \/ candidates_of(r)[1].agent = "CropAgent"

AtLeastSecondary(c) == c.score.v >= 50
SupportingFrom(c) == [agent |-> c.agent, role |-> "supporting", score |-> c.score]

\* C5: once a primary is chosen, the plan is the primary followed by the
\* remaining candidates scoring >= 50, in sorted order, as supporting, as
\* many as fit in 3 entries; candidates below 50 are left out and the
\* primary is not added again.
C5_SecondarySelection ==
    (pc = "routed" /\ scoring = "replied" /\ PrimaryChosen(raw)) =>
        LET cands == candidates_of(raw)
            eligible == SelectSeq(Tail(cands), AtLeastSecondary)
            room == MAX_ROUTED_AGENTS - 1
            taken == IF Len(eligible) < room THEN Len(eligible) ELSE room
        IN  /\ Len(routed) = 1 + taken
            /\ \A k \in 1..taken : routed[1 + k] = SupportingFrom(eligible[k])
            /\ \A k \in 2..Len(routed) : routed[k].agent # routed[1].agent

\* PestAgent at the primary threshold, IrrigationAgent at the secondary one
C5_Witness ==
    /\ pc = "routed"
    /\ raw = << LB, Obj("PestAgent", Num(PRIMARY_SCORE_THRESHOLD)),
                Obj("IrrigationAgent", Num(SECONDARY_SCORE_THRESHOLD)), RB >>
    /\ routed = << [agent |-> "PestAgent", role |-> "primary",
                    score |-> Num(PRIMARY_SCORE_THRESHOLD)],
                   [agent |-> "IrrigationAgent", role |-> "supporting",
                    score |-> Num(SECONDARY_SCORE_THRESHOLD)] >>


\* C6 as stated: llm_route_with_scores never raises; when the client cannot
\* be obtained, the scoring call fails, or parsing, normalizing, sorting or
\* selecting fails, it returns [] and route_query goes on with CropAgent as
\* primary with score 0.
C6_RouterNeverRaises ==
    /\ pc # "raised"
    /\ (pc = "routed" /\ scoring = "call_error") => routed = << >>
    /\ (pc = "routed" /\ scoring = "replied" /\ route_body(raw).raised)
          => routed = << >>
    /\ (pc = "invoke" /\ idx = 1 /\ scoring = "call_error") => routed = CropFallback

\* the block of a result: its role, its agent, its trimmed content
BlockAgent(b) == b[6]
BlockRole(b) == b[2]
BlockContent(b) == SubSeq(b, 9, Len(b))

\* the place in the payload of the result a block came from
SourceOf(b) ==
    CHOOSE i \in 1..Len(payload.agent_results) :
        payload.agent_results[i].agent = BlockAgent(b)

\* primary before supporting before impact before anything else; a result
\* without a role counts as supporting, and case does not matter
RoleRank(e) ==
    CASE e.role \in { "primary", "Primary" } -> 0
      [] e.role \in { "supporting", Absent } -> 1
      [] e.role = "impact" -> 2
      [] OTHER -> 3

\* a text from its first to its last character that is no whitespace
Trimmed(text) ==
    LET inked == { k \in 1..Len(text) : text[k] \notin Whitespace }
    IN  IF inked = {} THEN << >> ELSE SubSeq(text, Min(inked), Max(inked))

NonEmpty(e) == \E k \in 1..Len(e.content) : e.content[k] \notin Whitespace
Survivors(results) == { i \in 1..Len(results) : NonEmpty(results[i]) }

\* C7: whatever the order of the results in the payload, the blocks handed
\* to synthesis are those of the primary results, then the supporting, then
\* the impact ones, and results of one role keep their order in the payload.
C7_RoleOrder ==
    (pc = "synth" /\ payload.kind = "dict") =>
        /\ { BlockAgent(ordered_blocks[k]) : k \in 1..Len(ordered_blocks) }
             = { payload.agent_results[i].agent :
                   i \in Survivors(payload.agent_results) }
        /\ \A k, l \in 1..Len(ordered_blocks) :
              k < l =>
                LET i == SourceOf(ordered_blocks[k])
                    j == SourceOf(ordered_blocks[l])
                IN  \/ RoleRank(payload.agent_results[i])
                         < RoleRank(payload.agent_results[j])
                    \/ /\ RoleRank(payload.agent_results[i])
                            = RoleRank(payload.agent_results[j])
                       /\ i < j

\* results arriving as impact, primary, supporting leave as primary,
\* supporting, impact
C7_Witness ==
    /\ pc = "synth"
    /\ payload.kind = "dict"
    /\ Len(payload.agent_results) = 3
    /\ payload.agent_results[1].role = "impact"
    /\ payload.agent_results[2].role = "primary"
    /\ payload.agent_results[3].role = "supporting"
    /\ Len(ordered_blocks) = 3
    /\ BlockRole(ordered_blocks[1]) = "PRIMARY"
    /\ BlockRole(ordered_blocks[2]) = "SUPPORTING"
    /\ BlockRole(ordered_blocks[3]) = "IMPACT"

C9_ModeCountsSurvivors ==
    meta.present => (meta.routing_mode = "multi_agent" <=> meta.agent_count > 1)

\* C9 (amended): the recorded routing mode is multi_agent exactly when more
\* than one provider result was collected, before the empty-content drop,
\* and single_agent otherwise; agent_count counts the results that survive
\* the drop, so agent_count > 1 implies multi_agent but not the converse.
C9_ModeCountsResults ==
    (meta.present /\ path = "text") =>
        /\ meta.routing_mode = "multi_agent" <=> Len(agent_results) > 1
        /\ meta.routing_mode # "multi_agent" => meta.routing_mode = "single_agent"
        /\ meta.agent_count = Cardinality(Survivors(agent_results))
        /\ meta.agent_count > 1 => meta.routing_mode = "multi_agent"

\* two providers answered, one of them with blank content
C9_Witness ==
    /\ meta.present
    /\ path = "text"
    /\ Len(agent_results) = 2
    /\ meta.routing_mode = "multi_agent"
    /\ meta.agent_count = 1

\* where block k starts in the blocks laid end to end with a blank line
\* between two of them
RECURSIVE BlockOffset(_, _)
BlockOffset(blocks, k) ==
    IF k = 1 THEN 0 ELSE BlockOffset(blocks, k - 1) + Len(blocks[k - 1]) + 2

IsConcatenation(text, blocks) ==
    /\ blocks # << >>
    /\ Len(text) = BlockOffset(blocks, Len(blocks)) + Len(blocks[Len(blocks)])
    /\ \A k \in 1..Len(blocks) :
          SubSeq(text, BlockOffset(blocks, k) + 1,
                 BlockOffset(blocks, k) + Len(blocks[k])) = blocks[k]
    /\ \A k \in 1..(Len(blocks) - 1) :
          /\ text[BlockOffset(blocks, k + 1) - 1] = NL
          /\ text[BlockOffset(blocks, k + 1)] = NL

\* C10: when the synthesis call fails, _format_text records and returns the
\* ordered blocks laid end to end, in their order and with the content of
\* every surviving result, after one synthesis attempt and no more.
C10_SynthesisFallback ==
    synthesis = "error" =>
        /\ pc = "formatted"
        /\ Len(recorded) = 1
        /\ recorded[1].query = user_query
        /\ recorded[1].meta = meta
        /\ IsConcatenation(recorded[1].response, ordered_blocks)
        /\ reply = recorded[1].response
        /\ Len(SelectSeq(calls, IsSynthesisCall)) = 1
        /\ payload.kind = "dict" =>
              \A i \in Survivors(payload.agent_results) :
                 \E k \in 1..Len(ordered_blocks) :
                    /\ BlockAgent(ordered_blocks[k]) = payload.agent_results[i].agent
                    /\ BlockContent(ordered_blocks[k])
                         = Trimmed(payload.agent_results[i].content)

\* the call failed with three blocks to fall back on
C10_Witness ==
    /\ synthesis = "error"
    /\ pc = "formatted"
    /\ Len(ordered_blocks) = 3
    /\ Len(recorded[1].response) > 3



----------------------------------------------------------------------------
(* Stage order of route_query                                              *)

IsFormatterCall(c) == c = "FormatterAgent"
FormatterCalls == SelectSeq(calls, IsFormatterCall)

\* the rank of a call in the order scoring, providers, formatter, synthesis
StageOf(c) ==
    IF IsScoringCall(c) THEN 1
    ELSE IF IsProviderCall(c) THEN 2
    ELSE IF IsFormatterCall(c) THEN 3
    ELSE 4

StagesInOrder ==
    \A i, j \in 1..Len(calls) : i < j => StageOf(calls[i]) <= StageOf(calls[j])

\* route_query went past its entry checks and handed back an answer
AnsweredByPipeline == Returned /\ path \in { "image", "text" }

----------------------------------------------------------------------------
(* Normalization of the scoring array                                      *)

\* the agents of a parsed array that are registered and routable
KeptAgents(parsed) ==
    { parsed[i].agent : i \in 1..Len(parsed) }
        \cap (Registry \ { "FormatterAgent" })

FirstOccurrence(parsed, a) == Min({ i \in 1..Len(parsed) : parsed[i].agent = a })

\* the score an item of the reply carries, 0 when it carries none
ScoreOf(item) == IF item.has_score THEN item.score.v ELSE 0

\* c is the reference normalization of parsed
IsReferenceNormalization(c, parsed) ==
    /\ Len(c) = Cardinality(KeptAgents(parsed))
    /\ { c[i].agent : i \in 1..Len(c) } = KeptAgents(parsed)
    /\ \A i \in 1..Len(c) :
          c[i].score.v = ScoreOf(parsed[FirstOccurrence(parsed, c[i].agent)])
    /\ \A i, j \in 1..Len(c) :
          i < j =>
             \/ c[i].score.v > c[j].score.v
             \/ /\ c[i].score.v = c[j].score.v
                /\ FirstOccurrence(parsed, c[i].agent)
                     < FirstOccurrence(parsed, c[j].agent)

\* the reply parses to an array of objects none of whose scores is null
NormalizesCleanly(r) ==
    /\ HasMatch(r)
    /\ ~json_loads(re_search(r)).raised
    /\ LET parsed == json_loads(re_search(r)).val
       IN  \A i \in 1..Len(parsed) :
              parsed[i].t = "obj" /\ ~get_score(parsed[i]).none

\* C20: the candidates built from a parsed scoring array are its reference
\* normalization (registered, not FormatterAgent, first occurrence with its
\* score, score descending, ties in reply order), the plan is drawn from
\* them, and no plan names FormatterAgent or an unknown agent.
C20_ReferenceNormalization ==
    /\ (scoring = "replied" /\ NormalizesCleanly(raw))
          => /\ IsReferenceNormalization(candidates_of(raw),
                                         json_loads(re_search(raw)).val)
             /\ pc = "routed" =>
                   \A i \in 1..Len(routed) :
                      \/ routed = CropFallback
                      \/ \E k \in 1..Len(candidates_of(raw)) :
                            /\ candidates_of(raw)[k].agent = routed[i].agent
                            /\ candidates_of(raw)[k].score = routed[i].score
    /\ \A i \in 1..Len(routed) :
          routed[i].agent \in Registry \ { "FormatterAgent" }

\* a reply naming PestAgent twice and two providers with equal scores
C20_Witness ==
    /\ pc = "routed"
    /\ raw = << LB, Obj("PestAgent", Num(SECONDARY_SCORE_THRESHOLD)),
                Obj("CropAgent", Num(PRIMARY_SCORE_THRESHOLD)),
                Obj("PestAgent", Num(PRIMARY_SCORE_THRESHOLD)),
                Obj("IrrigationAgent", Num(SECONDARY_SCORE_THRESHOLD)), RB >>
    /\ candidates_of(raw)
         = << [agent |-> "CropAgent", score |-> Num(PRIMARY_SCORE_THRESHOLD)],
              [agent |-> "PestAgent", score |-> Num(SECONDARY_SCORE_THRESHOLD)],
              [agent |-> "IrrigationAgent",
               score |-> Num(SECONDARY_SCORE_THRESHOLD)] >>
    /\ Len(routed) = 3


----------------------------------------------------------------------------
(* ClarificationAgent.handle_query                                         *)

\* str.upper() / str.lower() of a text, word by word
upper_text(s) == [i \in 1..Len(s) |-> upper(s[i])]
lower_text(s) == [i \in 1..Len(s) |-> lower(s[i])]

\* the number of characters of a token; a token not listed has five or more
\* and counts as five, so that text_len is exact below 5
SingleChars == Whitespace \cup { "?", "a", "A" }

chars(tok) ==
    IF tok \in SingleChars THEN 1
    ELSE IF tok \in { "hi", "Hi", "HI", "ty", "ok", "it", "IT", "to", "my", "is" }
    THEN 2
    ELSE IF tok \in { "hey", "thx", "cya", "bye", "Bye", "see", "you", "YOU", "how" }
    THEN 3
    ELSE IF tok \in { "hola", "good", "Good", "pass", "Pass", "PASS", "sick" }
    THEN 4
    ELSE 5

\* len(s)
RECURSIVE text_len(_)
text_len(s) ==
    IF s = << >> THEN 0 ELSE chars(Head(s)) + text_len(Tail(s))

GREETINGS ==
    { << "hi" >>, << "hello" >>, << "hey" >>, << "hola" >>,
      << "good", SP, "morning" >>, << "good", SP, "afternoon" >>,
      << "good", SP, "evening,", SP, "hii" >> }
THANKS ==
    { << "thanks" >>, << "thank", SP, "you" >>, << "thx" >>, << "ty" >>,
      << "appreciate", SP, "it" >> }
GOODBYES ==
    { << "bye" >>, << "goodbye" >>, << "see", SP, "you" >>, << "later" >>,
      << "cya" >> }

GreetingPrompt == << "Hello! I'm AgriGPT, your farming assistant. What crop or issue would you like help with today?" >>
GreetingReply == << "Hello! I'm AgriGPT, your farming assistant. What crop or issue can I help you with today?" >>
ThanksReply == << "You're welcome! Let me know if you have any more questions." >>
GoodbyeReply == << "Goodbye! Feel free to come back anytime. Happy farming!" >>
DidntCatch == << "I didn't quite catch that. Could you tell me more about what you need help with?" >>
SafeFallback == << "I'm having a bit of trouble. Could you tell me more about the crop and issue you're facing?" >>
PassSignal == << "Got it! Let me connect you with the right expert. If you don't get a helpful answer, try rephrasing your question with more details." >>

\* not query or not query.strip()
is_blank(a) == ~a.given \/ strip(a.s) = << >>

\* the deterministic checks without lower-casing (C11 rests on lower())
gate_branch_case_sensitive(a) ==
    IF is_blank(a) THEN "prompt"
    ELSE LET clean_query == strip(a.s)
         IN  IF clean_query \in GREETINGS THEN "greeting"
             ELSE IF clean_query \in THANKS THEN "thanks"
             ELSE IF clean_query \in GOODBYES THEN "goodbye"
             ELSE IF text_len(clean_query) < 2 THEN "short"
             ELSE "classify"

\* lines 26-43: the deterministic checks, in their order
gate_branch(a) ==
    IF is_blank(a) THEN "prompt"
    ELSE LET clean_query == strip(a.s)
             lower_query == lower_text(clean_query)
         IN  IF lower_query \in GREETINGS THEN "greeting"
             ELSE IF lower_query \in THANKS THEN "thanks"
             ELSE IF lower_query \in GOODBYES THEN "goodbye"
             ELSE IF text_len(clean_query) < 2 THEN "short"
             ELSE "classify"

\* what each deterministic branch returns
canned_reply(branch) ==
    CASE branch = "prompt" -> GreetingPrompt
      [] branch = "greeting" -> GreetingReply
      [] branch = "thanks" -> ThanksReply
      [] branch = "goodbye" -> GoodbyeReply
      [] branch = "short" -> DidntCatch

\* the pass test on the exact token (C12's theorem rests on upper())
is_pass_literal(resp) == resp = << "PASS" >>

\* line 96: response.upper() == "PASS"
is_pass(resp) == upper_text(resp) = << "PASS" >>

\* a failed call read as a clear query (C13 rests on the except branch)
classify_fail_open(inf) ==
    IF inf.raised THEN "pass"
    ELSE IF is_pass(strip(inf.val)) THEN "pass"
    ELSE "question"

\* lines 89-99: which way the classification branch goes
classify(inf) ==
    IF inf.raised THEN "fallback"
    ELSE IF is_pass(strip(inf.val)) THEN "pass"
    ELSE "question"

\* the arguments of a respond_and_record call of an agent
Turn(q, r, img) == [query |-> q, response |-> r, image_path |-> img]

\* the texts ClarificationAgent is called with
GateTexts ==
    { << >>, << SP >>, << NL, SP >>,
      << "hi" >>, << SP, "Hi", NL >>, << "HELLO" >>, << "hey" >>,
      << "Good", SP, "Morning" >>, << "good", SP, "evening" >>,
      << "thanks" >>, << "THANK", SP, "YOU" >>, << "ty" >>, << "Bye" >>,
      << "?" >>, << SP, "A" >>, << "ok" >>,
      << "my", SP, "plant", SP, "is", SP, "sick" >>,
      << SP, "how", SP, "to", SP, "treat", SP, "aphids", NL >> }

GateArgs ==
    { [given |-> FALSE, s |-> << >>] }
      \cup { [given |-> TRUE, s |-> t] : t \in GateTexts }

\* what query_groq_text may hand back to the gate
GateReplies ==
    { << "PASS" >>, << SP, "PASS", NL >>, << "pass" >>, << "Pass" >>,
      << "PASS", SP, "it" >>, << "Which", SP, "crop?" >>,
      << NL, "Which", SP, "crop?", SP >>, << >>, << SP >> }

\* lines 24-45: the deterministic checks; a text that passes them goes on
\* to the classification call
GateHandleQuery ==
    /\ pc = "gate"
    /\ LET branch == gate_branch(arg)
       IN  IF branch = "classify"
           THEN /\ pc' = "classify"
                /\ UNCHANGED << path, reply >>
           ELSE /\ pc' = "done"
                /\ path' = branch
                /\ reply' = canned_reply(branch)
    /\ UNCHANGED << asked, query, image_path, scoring, raw, routed, idx, agent_results,
                    payload, user_query, ordered_blocks, meta, synthesis,
                    recorded, calls, solo, memory >>

\* lines 89-99: one call of query_groq_text, then PASS, a clarifying
\* question, or the fallback question
GateClassify ==
    /\ pc = "classify"
    /\ calls' = Append(calls, "llm.classify")
    /\ \E inf \in { Raise } \cup { Ok(t) : t \in GateReplies } :
          LET clean_query == strip(arg.s)
              way == classify(inf)
          IN  /\ inference' = inf
              /\ path' = way
              /\ CASE way = "fallback" ->
                        /\ reply' = SafeFallback
                        /\ UNCHANGED recorded
                   [] way = "pass" ->
                        /\ reply' = PassSignal
                        /\ UNCHANGED recorded
                   [] way = "question" ->
                        /\ reply' = respond_and_record(clean_query, strip(inf.val))
                        /\ recorded' = Append(recorded,
                                              Turn(clean_query, strip(inf.val),
                                                   image_path))
    /\ pc' = "done"
    /\ UNCHANGED << asked, query, image_path, scoring, raw, routed, idx, agent_results,
                    payload, user_query, ordered_blocks, meta, synthesis,
                    called, arg, image, attempt, sleeps, memory >>

\* a call of ClarificationAgent.handle_query
InitGate ==
    /\ pc = "gate"
    /\ path = "none"
    /\ query = NoQuery
    /\ image_path \in ImagePaths
    /\ payload = NoPayload
    /\ Fresh
    /\ called = "ClarificationAgent"
    /\ arg \in GateArgs
    /\ inference = Ok(<< >>)
    /\ image = ""
    /\ attempt = 0
    /\ sleeps = << >>
    /\ MemoryIdle

NextGate ==
    \/ GateHandleQuery
    \/ GateClassify

SpecGate == InitGate /\ [][NextGate]_vars


----------------------------------------------------------------------------
(* Properties of the clarification gate                                    *)

GateReturned == called = "ClarificationAgent" /\ pc = "done"
ClassifyCalls == SelectSeq(calls, LAMBDA c : c = "llm.classify")

\* the text of the call, trimmed (empty when no text was given)
CleanText == IF arg.given THEN Trimmed(arg.s) ELSE << >>

\* the spellings of the greetings the model's texts use
GreetingSpellings ==
    { << "hi" >>, << "Hi" >>, << "HELLO" >>, << "hey" >>,
      << "Good", SP, "Morning" >> }
ThanksSpellings == { << "thanks" >>, << "THANK", SP, "YOU" >>, << "ty" >> }
GoodbyeSpellings == { << "Bye" >> }
OneCharacter == { << "?" >>, << "A" >> }

\* C11: the gate answers a blank text with the greeting prompt, a greeting,
\* thanks or goodbye phrase in any casing and with surrounding whitespace
\* with its canned reply, any other text of fewer than 2 characters with the
\* didn't-catch-that reply, and makes no Inference Service call on any of
\* these branches.
C11_DeterministicBranches ==
    /\ (called = "ClarificationAgent" /\ CleanText = << >>)
          => /\ calls = << >>
             /\ pc = "done" => reply = GreetingPrompt
    /\ (called = "ClarificationAgent" /\ CleanText \in GreetingSpellings)
          => /\ calls = << >>
             /\ pc = "done" => reply = GreetingReply
    /\ (called = "ClarificationAgent" /\ CleanText \in ThanksSpellings)
          => /\ calls = << >>
             /\ pc = "done" => reply = ThanksReply
    /\ (called = "ClarificationAgent" /\ CleanText \in GoodbyeSpellings)
          => /\ calls = << >>
             /\ pc = "done" => reply = GoodbyeReply
    /\ (called = "ClarificationAgent" /\ CleanText \in OneCharacter)
          => /\ calls = << >>
             /\ pc = "done" => reply = DidntCatch
    /\ (called = "ClarificationAgent" /\ calls = << >> /\ pc = "done")
          => reply \in { GreetingPrompt, GreetingReply, ThanksReply,
                         GoodbyeReply, DidntCatch }

\* "Hi" between whitespace answered with the greeting reply
C11_Witness ==
    /\ GateReturned
    /\ arg.s = << SP, "Hi", NL >>
    /\ reply = GreetingReply
    /\ calls = << >>

\* the call came back with a reply
Classified == GateReturned /\ calls # << >> /\ ~inference.raised

PassSpellings == { << "PASS" >>, << "pass" >>, << "Pass" >> }

\* C12 as stated: the pass signal is produced only when the trimmed reply is
\* exactly PASS; every other non-empty reply is returned unchanged.
C12_PassLiteralOnly ==
    Classified =>
        IF Trimmed(inference.val) = << "PASS" >>
        THEN reply = PassSignal
        ELSE Trimmed(inference.val) # << >> => reply = Trimmed(inference.val)

\* C12: the pass signal is produced exactly when the trimmed reply is the
\* word PASS in any casing; every other reply is returned trimmed as the
\* direct reply and recorded with the trimmed query.
C12_PassAnyCasing ==
    Classified =>
        IF Trimmed(inference.val) \in PassSpellings
        THEN reply = PassSignal /\ recorded = << >>
        ELSE /\ reply = Trimmed(inference.val)
             /\ recorded = << Turn(CleanText, Trimmed(inference.val), image_path) >>

\* a lower-case "pass" gave the pass signal
C12_Witness ==
    /\ Classified
    /\ inference.val = << "pass" >>
    /\ reply = PassSignal

\* C13: when the classification call raises, the gate returns the safe
\* fallback question after that one call, raises nothing and gives no pass
\* signal.
C13_FailureFallsBack ==
    (called = "ClarificationAgent" /\ inference.raised)
        => /\ pc = "done"
           /\ reply = SafeFallback
           /\ reply # PassSignal
           /\ path = "fallback"
           /\ Len(ClassifyCalls) = 1

\* the call raised on a clear question
C13_Witness ==
    /\ GateReturned
    /\ inference.raised
    /\ arg.s = << SP, "how", SP, "to", SP, "treat", SP, "aphids", NL >>
    /\ reply = SafeFallback

\* C14 as stated: every branch that returns a direct reply records the turn
\* (query, response, image reference) exactly once before it returns.
C14_DirectReplyRecorded ==
    (GateReturned /\ reply # PassSignal)
        => /\ Len(recorded) = 1
           /\ recorded[1].response = reply
           /\ recorded[1].image_path = image_path

\* C15 as stated: with an image reference the gate makes no Inference
\* Service call.
C15_ImageSkipsClassification ==
    (called = "ClarificationAgent" /\ HasImage)
        => /\ pc # "classify"
           /\ ClassifyCalls = << >>


----------------------------------------------------------------------------
(* Providers called on their own: PestAgent, SubsidyAgent, and the vision  *)
(* service query_groq_image                                                *)

MAX_RETRIES == 3
RETRY_BACKOFF == << 1, 2, 4 >>

\* what query_groq_image finds behind image_path, lines 69-86
ImageFiles == { "missing", "too_large", "bad_format", "unreadable", "valid" }

ImageUnclear == << "The image could not be analyzed clearly. Please upload a clearer image." >>
TryAgainLater == << "The image could not be analyzed at this time. Please try again later." >>

\* lines 69-86: the message for a file that is rejected, << >> for one that
\* is accepted
image_rejection(img, file) ==
    IF img \in { NoPath, "" } \/ file = "missing"
    THEN << "The image file was not found." >>
    ELSE IF file = "too_large"
    THEN << "The image is too large. Please upload an image under 8MB." >>
    ELSE IF file = "bad_format"
    THEN << "Unsupported image format. Please upload a PNG or JPG image." >>
    ELSE IF file = "unreadable"
    THEN << "The image could not be read." >>
    ELSE << >>

\* _normalize_output of a string or of None
normalize_output(content) == strip(content)

\* lines 144-154: what a completed attempt returns
attempt_result(content) ==
    LET result == normalize_output(content)
    IN  IF result = << >> \/ text_len(result) < 5 THEN ImageUnclear ELSE result

\* line 157, negated: the failed attempt was the last one
is_last_attempt(a) == a >= MAX_RETRIES - 1

\* message.content of a completion
VisionContents ==
    { << >>, << "ok" >>, << "good" >>, << "spots" >>,
      << SP, "brown", SP, "spots", NL >> }

PestNoInput == << "Please upload a crop image or describe visible symptoms such as yellowing, spots, holes, insects, wilting, or abnormal leaf color." >>
PestTextFailed == << "Pest analysis could not be generated at this time." >>
SubsidyNoQuery == << "Please ask about a specific subsidy or government scheme" >>
SubsidyTextFailed == << "Error retrieving subsidy details:", SP, "<e>" >>

\* try: result = query_groq_text(prompt) / except: result = apology
text_result(outcome, apology) ==
    IF outcome.raised THEN Ok(apology) ELSE outcome

\* the texts a provider is called with
ProviderArgs ==
    { [given |-> FALSE, s |-> << >>],
      [given |-> TRUE, s |-> << >>],
      [given |-> TRUE, s |-> << SP >>],
      [given |-> TRUE, s |-> << SP, "drip", SP, "subsidy", NL >>] }

\* "not query": None or the empty string
is_falsy(a) == ~a.given \/ a.s = << >>

TextOutcomes == { Raise } \cup { Ok(t) : t \in ProviderOutputs }

\* PestAgent.handle_query, lines 15-54: no input, image, or text
PestHandleQuery ==
    /\ pc = "pest"
    /\ IF is_falsy(arg) /\ image_path \in { NoPath, "" }
       THEN /\ recorded' = Append(recorded, Turn(<< >>, PestNoInput, image_path))
            /\ reply' = respond_and_record(<< >>, PestNoInput)
            /\ pc' = "done"
       ELSE /\ pc' = IF image_path \notin { NoPath, "" } THEN "vision" ELSE "pest_text"
            /\ UNCHANGED << recorded, reply >>
    /\ UNCHANGED << pipeline, image_path, calls, solo, memory >>

\* PestAgent.handle_query, lines 54-78: the text branch
PestText ==
    /\ pc = "pest_text"
    /\ calls' = Append(calls, "llm.text")
    /\ \E outcome \in TextOutcomes :
          LET result == text_result(outcome, PestTextFailed)
          IN  /\ inference' = outcome
              /\ IF result.raised
                 THEN /\ pc' = "raised"
                      /\ UNCHANGED << recorded, reply >>
                 ELSE /\ pc' = "done"
                      /\ recorded' = Append(recorded,
                                            Turn(strip(arg.s), result.val, image_path))
                      /\ reply' = respond_and_record(strip(arg.s), result.val)
    /\ UNCHANGED << pipeline, image_path, called, arg, image, attempt, sleeps,
                    memory >>

\* query_groq_image, lines 69-103: validation of the file, then the client.
\* Groq(...) stands outside every try block.
VisionOpen ==
    /\ pc = "vision"
    /\ LET rejection == image_rejection(image_path, image)
       IN  IF rejection # << >>
           THEN /\ inference' = Ok(rejection)
                /\ pc' = "vision_out"
           ELSE \E client \in { "ok", "error" } :
                   IF client = "error"
                   THEN /\ inference' = Raise
                        /\ pc' = "vision_out"
                   ELSE /\ pc' = "vision_loop"
                        /\ UNCHANGED inference
    /\ attempt' = 0
    /\ UNCHANGED << pipeline, image_path, recorded, reply, calls, called, arg,
                    image, sleeps, memory >>

\* query_groq_image, lines 106-164: one turn of the retry loop
VisionAttempt ==
    /\ pc = "vision_loop"
    /\ calls' = Append(calls, "vision.create")
    /\ \E outcome \in { Raise } \cup { Ok(c) : c \in VisionContents } :
          IF ~outcome.raised
          THEN /\ inference' = Ok(attempt_result(outcome.val))
               /\ pc' = "vision_out"
               /\ UNCHANGED << attempt, sleeps >>
          ELSE IF ~is_last_attempt(attempt)
          THEN /\ sleeps' = Append(sleeps, RETRY_BACKOFF[attempt + 1])
               /\ attempt' = attempt + 1
               /\ UNCHANGED << pc, inference >>
          ELSE /\ inference' = Ok(TryAgainLater)
               /\ pc' = "vision_out"
               /\ UNCHANGED << attempt, sleeps >>
    /\ UNCHANGED << pipeline, image_path, recorded, reply, called, arg, image,
                    memory >>

\* query_groq_image hands its result, or its exception, to a direct caller
VisionReturn ==
    /\ pc = "vision_out"
    /\ called = "query_groq_image"
    /\ pc' = IF inference.raised THEN "raised" ELSE "done"
    /\ reply' = IF inference.raised THEN reply ELSE inference.val
    /\ UNCHANGED << pipeline, image_path, recorded, calls, solo, memory >>

\* PestAgent.handle_query, lines 40-49: the image branch after the call
PestImageResult ==
    /\ pc = "vision_out"
    /\ called = "PestAgent"
    /\ recorded' = Append(recorded,
                          Turn(<< "Image-based symptom observation" >>,
                               pest_image_query(inference), image_path))
    /\ reply' = pest_image_query(inference)
    /\ pc' = "done"
    /\ UNCHANGED << pipeline, image_path, calls, solo, memory >>

\* SubsidyAgent.handle_query, lines 28-45
SubsidyHandleQuery ==
    /\ pc = "subsidy"
    /\ IF is_blank(arg)
       THEN /\ recorded' = Append(recorded,
                                  Turn(<< "No query provided" >>, SubsidyNoQuery,
                                       image_path))
            /\ reply' = respond_and_record(<< "No query provided" >>, SubsidyNoQuery)
            /\ pc' = "done"
       ELSE /\ pc' = "retrieve"
            /\ UNCHANGED << recorded, reply >>
    /\ UNCHANGED << pipeline, image_path, calls, solo, memory >>

\* SubsidyAgent.handle_query, line 50: rag_service.retrieve, outside every
\* try block
SubsidyRetrieve ==
    /\ pc = "retrieve"
    /\ calls' = Append(calls, "rag.retrieve")
    /\ \E retrieved \in { "error", "no_docs", "docs" } :
          /\ pc' = IF retrieved = "error" THEN "raised" ELSE "subsidy_text"
          /\ inference' = IF retrieved = "error" THEN Raise ELSE inference
    /\ UNCHANGED << pipeline, image_path, recorded, reply, called, arg, image,
                    attempt, sleeps, memory >>

\* SubsidyAgent.handle_query, lines 95-107
SubsidyText ==
    /\ pc = "subsidy_text"
    /\ calls' = Append(calls, "llm.text")
    /\ \E outcome \in TextOutcomes :
          LET result == text_result(outcome, SubsidyTextFailed)
          IN  /\ inference' = outcome
              /\ IF result.raised
                 THEN /\ pc' = "raised"
                      /\ UNCHANGED << recorded, reply >>
                 ELSE /\ pc' = "done"
                      /\ recorded' = Append(recorded,
                                            Turn(strip(arg.s), result.val, image_path))
                      /\ reply' = respond_and_record(strip(arg.s), result.val)
    /\ UNCHANGED << pipeline, image_path, called, arg, image, attempt, sleeps,
                    memory >>

\* a call of PestAgent.handle_query, of SubsidyAgent.handle_query, or of
\* query_groq_image
InitProviders ==
    /\ path = "none"
    /\ query = NoQuery
    /\ payload = NoPayload
    /\ Fresh
    /\ image_path \in ImagePaths
    /\ image \in ImageFiles
    /\ inference = Ok(<< >>)
    /\ attempt = 0
    /\ sleeps = << >>
    /\ MemoryIdle
    /\ \/ called = "PestAgent" /\ pc = "pest" /\ arg \in ProviderArgs
       \/ called = "SubsidyAgent" /\ pc = "subsidy" /\ arg \in ProviderArgs
       \/ /\ called = "query_groq_image"
          /\ pc = "vision"
          /\ arg = [given |-> FALSE, s |-> << >>]

NextProviders ==
    \/ PestHandleQuery
    \/ PestText
    \/ VisionOpen
    \/ VisionAttempt
    \/ VisionReturn
    \/ PestImageResult
    \/ SubsidyHandleQuery
    \/ SubsidyRetrieve
    \/ SubsidyText

SpecProviders == InitProviders /\ [][NextProviders]_vars


----------------------------------------------------------------------------
(* Properties of the providers and of the vision service                   *)

IsProvider == called \in { "PestAgent", "SubsidyAgent" }
VisionCalls == SelectSeq(calls, LAMBDA c : c = "vision.create")
RetrieveCalls == SelectSeq(calls, LAMBDA c : c = "rag.retrieve")

\* C16 as stated: a provider's handle_query never raises; when its text
\* call, the vision service or the retrieval service fails, it returns a
\* non-empty apologetic text.
C16_ProvidersNeverRaise ==
    IsProvider =>
        /\ pc # "raised"
        /\ (pc = "done" /\ inference.raised)
              => reply \in { PestTextFailed, SubsidyTextFailed,
                             << "The image could not be analyzed clearly." >> }

\* the vision service is at work on a valid image
ValidImage ==
    /\ called \in { "query_groq_image", "PestAgent" }
    /\ image_path \notin { NoPath, "" }
    /\ image = "valid"

\* what query_groq_image returns for a valid image
ValidImageReturns ==
    { ImageUnclear, TryAgainLater, << "spots" >>, << "brown", SP, "spots" >> }

\* the loop of query_groq_image: at most 3 calls, a wait of 1 and then of 2
\* seconds after the first and the second failure, none after the third
RetryDiscipline ==
    /\ Len(VisionCalls) <= 3
    /\ \E k \in 0..2 : sleeps = SubSeq(<< 1, 2 >>, 1, k)
    /\ pc = "vision_loop" => Len(VisionCalls) = Len(sleeps)
    /\ (pc = "vision_out" /\ ~inference.raised)
          => /\ Len(VisionCalls) = Len(sleeps) + 1
             /\ inference.val \in ValidImageReturns
             /\ inference.val = TryAgainLater => Len(VisionCalls) = 3

\* C17 as stated: for a valid image query_groq_image returns a string and
\* never raises, after at most 3 calls, the first success ending the loop,
\* with waits of 1 and 2 seconds between attempts only and the try-again
\* message after the third failure.
C17_VisionAlwaysReturns ==
    ValidImage =>
        /\ ~(pc = "vision_out" /\ inference.raised)
        /\ ~(called = "query_groq_image" /\ pc = "raised")
        /\ pc \in { "vision_loop", "vision_out" } => RetryDiscipline


----------------------------------------------------------------------------
(* The session store: memory_manager.py                                    *)

MAX_HISTORY_LENGTH == 10

\* threads calling add_message_to_history at the same time
MaxThreads == 2

\* session ids a call may carry; "" is the empty id
SessionIds == { "", "s1", "s2" }

Message(role, content) == [role |-> role, content |-> content]

\* the message thread t appends
MessageOf(t) == Message("user", t)

\* k messages stored before the calls begin
OldMessages(k) == [i \in 1..k |-> Message("assistant", 0 - i)]

\* a deque without maxlen (C23 rests on the trim)
deque_append_unbounded(d, x) == Append(d, x)

\* deque(maxlen=MAX_HISTORY_LENGTH).append
deque_append(d, x) ==
    IF Len(d) >= MAX_HISTORY_LENGTH THEN Tail(d) \o << x >> ELSE Append(d, x)

\* get_chat_history, lines 32-36
get_chat_history(session_id) ==
    IF session_id = "" \/ chat_memory[session_id] = 0
    THEN << >>
    ELSE deques[chat_memory[session_id]]

\* lines 41-44: the empty id returns at once; otherwise the membership test
AddEnter(t) ==
    /\ threads[t].pc = "enter"
    /\ LET sid == threads[t].session
       IN  threads' = [threads EXCEPT ![t].pc =
                          IF sid = "" THEN "done"
                          ELSE IF chat_memory[sid] = 0 THEN "create"
                          ELSE "lookup"]
    /\ UNCHANGED << chat_memory, deques >>
    /\ UNCHANGED << pc, pipeline, image_path, recorded, reply, calls, solo >>

\* line 45: a new deque is stored under the id, whatever is stored there
AddCreate(t) ==
    /\ threads[t].pc = "create"
    /\ deques' = Append(deques, << >>)
    /\ chat_memory' = [chat_memory EXCEPT ![threads[t].session] = Len(deques) + 1]
    /\ threads' = [threads EXCEPT ![t].pc = "lookup"]
    /\ UNCHANGED << pc, pipeline, image_path, recorded, reply, calls, solo >>

\* line 47, _CHAT_MEMORY[session_id]: the deque stored under the id now
AddLookup(t) ==
    /\ threads[t].pc = "lookup"
    /\ threads' = [threads EXCEPT ![t].pc = "append",
                                  ![t].d = chat_memory[threads[t].session]]
    /\ UNCHANGED << chat_memory, deques >>
    /\ UNCHANGED << pc, pipeline, image_path, recorded, reply, calls, solo >>

\* line 47, .append(...): onto the deque that was looked up
AddAppend(t) ==
    /\ threads[t].pc = "append"
    /\ deques' = [deques EXCEPT ![threads[t].d] = deque_append(@, MessageOf(t))]
    /\ threads' = [threads EXCEPT ![t].pc = "done"]
    /\ UNCHANGED chat_memory
    /\ UNCHANGED << pc, pipeline, image_path, recorded, reply, calls, solo >>

\* the store before the calls: no session, or session s1 holding 0,
\* MAX_HISTORY_LENGTH - 1 or MAX_HISTORY_LENGTH messages
InitMemory ==
    /\ pc = "memory"
    /\ path = "none"
    /\ query = NoQuery
    /\ image_path = NoPath
    /\ payload = NoPayload
    /\ Fresh
    /\ SoloIdle
    /\ \/ /\ chat_memory = [s \in SessionIds \ { "" } |-> 0]
          /\ deques = << >>
       \/ \E k \in { 0, MAX_HISTORY_LENGTH - 1, MAX_HISTORY_LENGTH } :
             /\ chat_memory = [s \in SessionIds \ { "" } |-> IF s = "s1" THEN 1 ELSE 0]
             /\ deques = << OldMessages(k) >>
    /\ threads \in [1..MaxThreads ->
                       { [pc |-> "enter", session |-> s, d |-> 0] : s \in SessionIds }]

NextMemory ==
    \E t \in 1..MaxThreads :
        \/ AddEnter(t)
        \/ AddCreate(t)
        \/ AddLookup(t)
        \/ AddAppend(t)

SpecMemory == InitMemory /\ [][NextMemory]_vars

AllReturned == pc = "memory" /\ \A t \in 1..MaxThreads : threads[t].pc = "done"

Contents(h) == { h[i] : i \in 1..Len(h) }

\* C18 as stated: once all concurrent add_message_to_history calls have
\* returned, every message appended under a session id is in that
\* session's history (no more are appended than the trim keeps).
C18_NoAppendLost ==
    AllReturned =>
        \A t \in 1..MaxThreads :
            threads[t].session # "" =>
                MessageOf(t) \in Contents(get_chat_history(threads[t].session))


----------------------------------------------------------------------------
(* Malformed scores                                                        *)

\* the reply with every null score read as 0
ZeroedReply(r) ==
    [i \in 1..Len(r) |->
        IF r[i].t = "obj" /\ r[i].has_score /\ r[i].score.none
        THEN Obj(r[i].agent, Num(0))
        ELSE r[i]]

\* the reply parses to an array of objects, one of them a kept candidate
\* whose score is null
HasNullScoredCandidate(r) ==
    /\ HasMatch(r)
    /\ ~json_loads(re_search(r)).raised
    /\ ~normalize_raises(json_loads(re_search(r)).val)
    /\ \E i \in 1..Len(candidates_of(r)) : candidates_of(r)[i].score.none

\* C21 as stated: a candidate whose score is missing or null counts as
\* score 0 and stays a candidate, and the plan is the one the threshold
\* rules give for the reply with that score read as 0.
C21_MalformedScoreIsZero ==
    (pc = "routed" /\ scoring = "replied" /\ HasMatch(raw)
        /\ ~json_loads(re_search(raw)).raised
        /\ ~normalize_raises(json_loads(re_search(raw)).val))
        => routed = llm_route_with_scores(ZeroedReply(raw))


----------------------------------------------------------------------------
(* The fan-out loop of route_query on a plan of its own                    *)

\* longest plan handed to the loop
MaxPlanLen == 4

\* entries of a plan: registered providers and one the registry lacks
PlanEntries ==
    { [agent |-> "CropAgent", role |-> "primary",
       score |-> Num(PRIMARY_SCORE_THRESHOLD)],
      [agent |-> "PestAgent", role |-> "supporting",
       score |-> Num(SECONDARY_SCORE_THRESHOLD)],
      [agent |-> "IrrigationAgent", role |-> "supporting", score |-> Num(0)],
      [agent |-> "GhostAgent", role |-> "supporting",
       score |-> Num(SECONDARY_SCORE_THRESHOLD)] }

\* route_query at line 92, about to run the loop over a plan of up to
\* MaxPlanLen entries
InitFanOut ==
    /\ pc = "invoke"
    /\ path = "text"
    /\ query = [given |-> TRUE, pad |-> 0, body |-> MAX_QUERY_CHARS]
    /\ image_path = NoPath
    /\ payload = NoPayload
    /\ \E n \in 1..MaxPlanLen : \E plan \in [1..n -> PlanEntries] : routed = plan
    /\ idx = 1
    /\ scoring = "none"
    /\ raw = << >>
    /\ agent_results = << >>
    /\ user_query = << >>
    /\ ordered_blocks = << >>
    /\ meta = NoMeta
    /\ synthesis = "none"
    /\ recorded = << >>
    /\ reply = << >>
    /\ calls = << >>
    /\ asked = << >>
    /\ SoloIdle
    /\ MemoryIdle

NextFanOut ==
    \/ InvokeNext
    \/ BuildPayload

SpecFanOut == InitFanOut /\ [][NextFanOut]_vars

\* the first three entries of the plan, or all of it when it is shorter
PlanLength == IF Len(routed) <= 3 THEN Len(routed) ELSE 3

\* the entries among the first k of the plan whose provider is registered
InvokedOf(k) == SelectSeq(SubSeq(routed, 1, k), LAMBDA e : e.agent \in Registry)

\* C22: on the text path the loop has dealt with the first idx - 1 entries
\* of the plan (all of the first three once the payload is built): the
\* results are exactly the entries whose provider is registered, in plan
\* order, each with the entry's provider id, role and score; each of those
\* providers was invoked once, in that order, with the query; an
\* unregistered entry is passed over.
C22_FanOutInPlanOrder ==
    (path = "text" /\ pc \in { "invoke", "format" }) =>
        LET k == IF pc = "format" THEN PlanLength ELSE idx - 1
        IN  /\ k <= PlanLength
            /\ PlanOf(agent_results) = InvokedOf(k)
            /\ ProviderCalls = [i \in 1..Len(InvokedOf(k)) |-> InvokedOf(k)[i].agent]
            /\ asked = [i \in 1..Len(InvokedOf(k)) |-> << "<query>" >>]
            /\ pc = "format" => payload.agent_results = agent_results

\* a plan of four whose second provider is unregistered: two results, the
\* fourth entry never reached
C22_Witness ==
    /\ pc = "format"
    /\ path = "text"
    /\ Len(routed) = 4
    /\ routed[2].agent = "GhostAgent"
    /\ routed[4].agent = "PestAgent"
    /\ Len(agent_results) = 2
    /\ agent_results[1].agent = "CropAgent"
    /\ agent_results[2].agent = "IrrigationAgent"
    /\ calls = << "CropAgent", "IrrigationAgent" >>


----------------------------------------------------------------------------
(* The session store under one caller                                      *)

\* calls of add_message_to_history made one after the other
MaxCalls == 11

\* add_message_to_history, lines 39-47, as one call: the empty id returns
\* at once; a session not stored yet gets a new deque; the message goes
\* onto the session's deque.  threads is the record of the calls made.
AddMessageToHistory ==
    /\ pc = "history"
    /\ Len(threads) < MaxCalls
    /\ \E sid \in SessionIds :
          LET t == Len(threads) + 1
          IN  /\ threads' = Append(threads, [pc |-> "done", session |-> sid, d |-> 0])
              /\ IF sid = ""
                 THEN UNCHANGED << chat_memory, deques >>
                 ELSE IF chat_memory[sid] = 0
                 THEN /\ chat_memory' = [chat_memory EXCEPT ![sid] = Len(deques) + 1]
                      /\ deques' = Append(deques, deque_append(<< >>, MessageOf(t)))
                 ELSE /\ deques' = [deques EXCEPT ![chat_memory[sid]] =
                                        deque_append(@, MessageOf(t))]
                      /\ UNCHANGED chat_memory
    /\ UNCHANGED << pc, pipeline, image_path, recorded, reply, calls, solo >>

\* the module as imported: _CHAT_MEMORY = {}
InitHistory ==
    /\ pc = "history"
    /\ path = "none"
    /\ query = NoQuery
    /\ image_path = NoPath
    /\ payload = NoPayload
    /\ Fresh
    /\ SoloIdle
    /\ chat_memory = [s \in SessionIds \ { "" } |-> 0]
    /\ deques = << >>
    /\ threads = << >>

NextHistory == AddMessageToHistory

SpecHistory == InitHistory /\ [][NextHistory]_vars

\* the messages appended under session id s so far, in the order of the calls
AppendedTo(s) ==
    LET made == SelectSeq([t \in 1..Len(threads) |-> t],
                          LAMBDA t : threads[t].session = s)
    IN  [i \in 1..Len(made) |-> MessageOf(made[i])]

\* the last k elements of h
LastOf(h, k) == SubSeq(h, Len(h) - k + 1, Len(h))

\* C23: after any sequence of add_message_to_history calls the history of
\* each session s is the most recent min(n, 10) of the n messages appended
\* to s, in append order; no message appended under another id is in it;
\* the empty id has no history, and what was appended under it is in no
\* session's history.
C23_HistoryIsRecentWindow ==
    pc = "history" =>
        /\ get_chat_history("") = << >>
        /\ \A s \in SessionIds \ { "" } :
              LET n == Len(AppendedTo(s))
                  h == get_chat_history(s)
              IN  /\ h = LastOf(AppendedTo(s),
                                IF n <= MAX_HISTORY_LENGTH THEN n ELSE MAX_HISTORY_LENGTH)
                  /\ \A i \in 1..Len(h) :
                        \A o \in SessionIds \ { s } :
                            h[i] \notin Contents(AppendedTo(o))

\* eleven messages appended to one session: the first is trimmed, the
\* second is now the oldest
C23_Witness ==
    /\ pc = "history"
    /\ Len(AppendedTo("s1")) = MAX_HISTORY_LENGTH + 1
    /\ Len(get_chat_history("s1")) = MAX_HISTORY_LENGTH
    /\ get_chat_history("s1")[1] = AppendedTo("s1")[2]
    /\ get_chat_history("s1")[MAX_HISTORY_LENGTH] = AppendedTo("s1")[MAX_HISTORY_LENGTH + 1]

=============================================================================
